---------------------------- MODULE Spec2Model ----------------------------
(***************************************************************************)
(* pyBinSim: the SoundHandler (audio thread reader + file-loader thread),  *)
(* the engine's audio callback and the ConvolverFFTW.                      *)
(*                                                                         *)
(* Audio data is symbolic in the SoundHandler model: a block of a decoded  *)
(* file is the pair <<file, block index>>, silence is Zero.  A decoded     *)
(* matrix is the record [f, rows, cols] of its file and numpy shape.       *)
(* Threads interleave between the statements that touch shared fields:     *)
(* lpc is the loader thread's position, apc the audio thread's.            *)
(***************************************************************************)
EXTENDS Integers, Sequences, FiniteSets, TLC

VARIABLES
    \* ---- SoundHandler fields (soundhandler.py:38-53)
    buffer,                  \* [front, back]: the two halves of the (n_channels, 2B) buffer
    sound,                   \* self.sound: the active source
    sound_file,              \* self.sound_file: the staged buffer
    frame_count,
    active_channels,
    soundPath,
    new_sound_file_request,
    new_sound_file_loaded,
    loopSound,
    currentSoundFile,
    soundFileList,
    \* ---- loader thread (read_sound_file)
    lpc,                     \* position in the loop body
    lfile,                   \* the path handed to sf.read
    \* ---- audio thread (stream_start / callback)
    apc,                     \* position in the callback
    num_channels,            \* callback local
    block,                   \* binsim.block
    \* ---- OscReceiver cells
    oscFileList,             \* sound-file-request cell
    dirty,                   \* per channel: filter update pending
    value,                   \* per channel: latest coordinates
    \* ---- engine convolvers: [cur, prev, interpolate] per channel
    conv,
    \* ---- history
    delivered,               \* non-silent blocks returned by buffer_read in this pass over the playlist
    fileMsgs,                \* /pyBinSimFile messages received so far
    filterMsgs,              \* /pyBinSimFilter messages received so far
    pendingAtStart,          \* per channel: updates pending when the callback began (0..2)
    updCount,                \* per channel: updates since the callback last consumed the flag (0..2)
    lastSetIR,               \* per channel: coordinates of the setIR made by the running/last callback, or NoKey
    processed,               \* channels whose convolver ran process in the running/last callback
    \* ---- one ConvolverFFTW with its numeric state, and what it was fed
    cv,                      \* the convolver's fields
    hist,                    \* the blocks passed to process so far
    plain,                   \* the filter of a setIR(h, False) that the last process call followed, or 0
    wins,                    \* the input buffers the process calls transformed, oldest first
    fade,                    \* asked: a setIR(., True) came since the last process call;
                             \* last: do_interpolation of the latest setIR since then, or "none";
                             \* used: the interpolate flag the last process call started with
    xpc,                     \* the main thread: "running" in stream_start, then the step of __cleanup it is at
    shutLog,                 \* the steps of the shutdown completed so far, in order
    \* ---- SoundSceneHandler with one SoundEvent (soundhandling.py:65-223)
    ev,                      \* the SoundEvent: is_running, channel, frame_count, loopSound, chunks
    scene_chunk,             \* what SoundSceneHandler.request_chunk returned last, row by row
    evCmds,                  \* the commands since the event last delivered a chunk
    evStart,                 \* the channel of the latest command if it was a start with one
    evRet,                   \* what the last request_chunk of the event returned
    evDelivered,             \* index of the last chunk of the sound it delivered, NoArg: none yet
    \* ---- BinSimConfig (application.py:51-96)
    configurationDict,       \* key -> value, values written as Python prints them
    configLog,               \* warnings logged by read_from_file
    configRead,              \* the lines of the config file read so far
    configState,             \* "reading", or "raised" after an exception
    \* ---- the output stage of the callback (application.py:219-243)
    binsim_result,           \* binsim.result: [left, right], samples in units of 1 / Unit
    convolverHP,             \* binsim.convolverHP, or "None"
    useHeadphoneFilter,      \* config
    loudnessFactor,          \* config
    mixC,                    \* num_channels of the last callback
    outs,                    \* what the convolvers of the last callback returned, per channel
    warnings,                \* clip warnings the last callback logged
    emitted,                 \* the block the last callback returned, or "None"
    callbacks,               \* callbacks so far
    lastCall                 \* the last call on the convolver: "none", "setIR", "process" or "raised"

svars == <<buffer, sound, sound_file, frame_count, active_channels, soundPath,
           new_sound_file_request, new_sound_file_loaded, loopSound,
           currentSoundFile, soundFileList>>
lvars == <<lpc, lfile>>
avars == <<apc, num_channels, block>>
ovars == <<oscFileList, dirty, value>>
hvars == <<delivered, fileMsgs, filterMsgs, pendingAtStart, updCount, lastSetIR, processed>>
cvars == <<cv, hist, plain, wins, fade, lastCall>>
xvars == <<xpc, shutLog>>
mvars == <<binsim_result, convolverHP, useHeadphoneFilter, loudnessFactor, mixC, outs,
           warnings, emitted, callbacks>>
kvars == <<configurationDict, configLog, configRead, configState>>
evars == <<ev, scene_chunk, evCmds, evStart, evRet, evDelivered>>
vars  == <<svars, lvars, avars, ovars, conv, hvars, cvars, xvars, mvars, kvars, evars>>

---------------------------------------------------------------------------
\* Configuration (scaled down) and bounds

\* maxChannels: convolvers and buffer rows preallocated
N == 2
\* blockSize B, in samples
BlockSize == 2
\* /pyBinSimFile messages the control thread receives in a run
MaxFileMsgs == 1
\* /pyBinSimFilter messages the control thread receives in a run
MaxFilterMsgs == 2
\* blocks remembered in the delivery log
MaxLog == 4

Min(a, b) == IF a < b THEN a ELSE b

---------------------------------------------------------------------------
\* The files on disk, as sf.read sees them

Files == {"a", "b", "s", "w", "x", "r"}

\* frames per channel
Frames(f) == CASE f = "a" -> 2 * BlockSize
               [] f = "b" -> 2 * BlockSize
               [] f = "s" -> 2 * BlockSize - 1
               [] f = "w" -> 2 * BlockSize
               [] OTHER   -> BlockSize

Channels(f) == CASE f = "s" -> 2
                 [] f = "w" -> N + 1
                 [] OTHER   -> 1

\* sf.read raises for an unreadable file
Decodes(f) == f # "x"

\* the engine's samplingRate is 1; file "r" was recorded at another rate
SampleRate(f) == IF f = "r" THEN 2 ELSE 1
EngineRate == 1

Loadable(f) == Decodes(f) /\ SampleRate(f) = EngineRate

\* '#'-separated playlists that the configuration or a /pyBinSimFile message names
Playlists == { <<"a", "b">>, <<"s">>, <<"w">>, <<"x">>, <<"r">> }

---------------------------------------------------------------------------
\* Blocks and matrices

Zero == <<"zero", 0>>
Junk == <<"junk", 0>>
ZeroHalf == [r \in 1..N |-> Zero]

EmptySound == [f |-> "", rows |-> 0, cols |-> 0]

\* np.asmatrix(audio_file_data): sf.read gives a 1-D array for a mono file
\* (one row of samples) and (frames, channels) otherwise
AsMatrix(f) == IF Channels(f) = 1
               THEN [f |-> f, rows |-> 1, cols |-> Frames(f)]
               ELSE [f |-> f, rows |-> Frames(f), cols |-> Channels(f)]

Transpose(m) == [f |-> m.f, rows |-> m.cols, cols |-> m.rows]

\* lines 116-117
Orient(m) == IF m.rows > m.cols THEN Transpose(m) ELSE m

\* lines 121-138
Pad(m) == IF m.cols % BlockSize # 0
          THEN [m EXCEPT !.cols = m.cols + (BlockSize - (m.cols % BlockSize))]
          ELSE m

\* numpy assignment of an (R, B) array into an (L, B) slice: same shape or broadcast
Assignable(L, R) == R = L \/ R = 1

\* a shift that leaves the front half as it was
CopyRowsNot(dst, src, L) == dst

SetRows(half, L, cell) == [r \in 1..N |-> IF r <= L THEN cell ELSE half[r]]
CopyRows(dst, src, L)  == [r \in 1..N |-> IF r <= L THEN src[r] ELSE dst[r]]

---------------------------------------------------------------------------
\* FilterStorage and the control messages

\* coordinates a /pyBinSimFilter message can carry; NoKey: none received yet
Keys == {1, 2, 3}
NoKey == 0
\* FilterStorage.get(key): the table holds a filter for keys 1 and 2, none for 3
HasFilter(k) == k \in {1, 2}
\* the convolvers start with all-zero transfer functions
ZeroFilter == 0
\* config enableCrossfading
EnableCrossfading == TRUE

Chans == 1..N

---------------------------------------------------------------------------
\* SoundHandler

\* a flush that zeroes the back half only
FlushKeepsFront == [front |-> [r \in 1..N |-> Junk], back |-> ZeroHalf]

\* buffer_flush
Flushed == [front |-> ZeroHalf, back |-> ZeroHalf]

\* a request_next_sound_file that leaves soundPath as it was
RequestNextKeepsPath(csf) ==
    /\ currentSoundFile' = csf
    /\ soundPath' = soundPath
    /\ new_sound_file_request' = TRUE

\* request_next_sound_file, with currentSoundFile already at csf - 1
RequestNext(csf) ==
    /\ currentSoundFile' = csf
    /\ soundPath' = soundFileList[csf]
    /\ new_sound_file_request' = TRUE

\* buffer_add_sound on buffer buf, source snd and cursor fc.  The result says
\* whether numpy accepted the assignments (ok), the buffer and cursor left
\* behind, and the playlist entry requested (req = 0: none).
BufferAddSound(buf, snd, fc) ==
    LET L == Min(active_channels, N)
        shifted == [front |-> CopyRows(buf.front, buf.back, L), back |-> buf.back]
    IN  IF (fc + 1) * BlockSize < snd.cols
        THEN LET R == Min(active_channels, snd.rows) IN
             IF Assignable(L, R)
             THEN [ok |-> TRUE, frame_count |-> fc + 1, req |-> 0,
                   buffer |-> [front |-> shifted.front,
                               back  |-> SetRows(shifted.back, L, <<snd.f, fc>>)]]
             ELSE [ok |-> FALSE, frame_count |-> fc, req |-> 0, buffer |-> shifted]
        ELSE IF currentSoundFile < Len(soundFileList) /\ ~new_sound_file_request
        THEN [ok |-> TRUE, frame_count |-> fc, req |-> currentSoundFile + 1, buffer |-> buf]
        ELSE IF loopSound /\ ~new_sound_file_request
        THEN [ok |-> TRUE, frame_count |-> 0, req |-> 1, buffer |-> buf]
        ELSE \* buffer_add_silence
             IF Assignable(L, active_channels)
             THEN [ok |-> TRUE, frame_count |-> fc, req |-> 0,
                   buffer |-> [front |-> shifted.front,
                               back  |-> SetRows(shifted.back, L, Zero)]]
             ELSE [ok |-> FALSE, frame_count |-> fc, req |-> 0, buffer |-> shifted]

\* the delivery log after buffer_read returned rows 1..L of front; the log
\* starts anew when the first playlist entry is adopted
Logged(log, front, L) ==
    IF L >= 1 /\ front[1] # Zero /\ Len(log) < MaxLog
    THEN Append(log, front[1])
    ELSE log

---------------------------------------------------------------------------
\* Loader thread: read_sound_file, one action per statement that touches a
\* shared field

\* line 104: the poll sees the request
LoaderPoll ==
    /\ lpc = "poll"
    /\ new_sound_file_request
    /\ lpc' = "read"
    /\ UNCHANGED <<evars, kvars, mvars, xvars, cvars, svars, lfile, avars, ovars, conv, hvars>>

\* LoaderRead with the sample rate checked only after the data was staged
LoaderReadLateCheck ==
    /\ lpc = "read"
    /\ lfile' = soundPath
    /\ lpc' = IF Loadable(soundPath) THEN "matrix" ELSE "dead"
    /\ IF Decodes(soundPath) /\ ~Loadable(soundPath)
       THEN /\ sound_file' = Orient(AsMatrix(soundPath))
            /\ active_channels' = sound_file'.rows
       ELSE UNCHANGED <<sound_file, active_channels>>
    /\ UNCHANGED <<evars, kvars, mvars, xvars, cvars, buffer, sound, frame_count, soundPath,
                   new_sound_file_request, new_sound_file_loaded, loopSound,
                   currentSoundFile, soundFileList, avars, ovars, conv, hvars>>

\* lines 106-107: sf.read(self.soundPath) and the sample-rate assertion; an
\* exception ends the thread (the loop has no handler)
LoaderRead ==
    /\ lpc = "read"
    /\ lfile' = soundPath
    /\ lpc' = IF Loadable(soundPath) THEN "matrix" ELSE "dead"
    /\ UNCHANGED <<evars, kvars, mvars, xvars, cvars, svars, avars, ovars, conv, hvars>>

\* line 111
LoaderMatrix ==
    /\ lpc = "matrix"
    /\ sound_file' = AsMatrix(lfile)
    /\ lpc' = "orient"
    /\ UNCHANGED <<evars, kvars, mvars, xvars, cvars, buffer, sound, frame_count, active_channels, soundPath,
                   new_sound_file_request, new_sound_file_loaded, loopSound,
                   currentSoundFile, soundFileList, lfile, avars, ovars, conv, hvars>>

\* lines 116-117
LoaderOrient ==
    /\ lpc = "orient"
    /\ sound_file' = Orient(sound_file)
    /\ lpc' = "channels"
    /\ UNCHANGED <<evars, kvars, mvars, xvars, cvars, buffer, sound, frame_count, active_channels, soundPath,
                   new_sound_file_request, new_sound_file_loaded, loopSound,
                   currentSoundFile, soundFileList, lfile, avars, ovars, conv, hvars>>

\* line 119
LoaderChannels ==
    /\ lpc = "channels"
    /\ active_channels' = sound_file.rows
    /\ lpc' = "pad"
    /\ UNCHANGED <<evars, kvars, mvars, xvars, cvars, buffer, sound, sound_file, frame_count, soundPath,
                   new_sound_file_request, new_sound_file_loaded, loopSound,
                   currentSoundFile, soundFileList, lfile, avars, ovars, conv, hvars>>

\* lines 121-143
LoaderPad ==
    /\ lpc = "pad"
    /\ sound_file' = Pad(sound_file)
    /\ lpc' = "clear"
    /\ UNCHANGED <<evars, kvars, mvars, xvars, cvars, buffer, sound, frame_count, active_channels, soundPath,
                   new_sound_file_request, new_sound_file_loaded, loopSound,
                   currentSoundFile, soundFileList, lfile, avars, ovars, conv, hvars>>

\* line 144
LoaderClearRequest ==
    /\ lpc = "clear"
    /\ new_sound_file_request' = FALSE
    /\ lpc' = "publish"
    /\ UNCHANGED <<evars, kvars, mvars, xvars, cvars, buffer, sound, sound_file, frame_count, active_channels, soundPath,
                   new_sound_file_loaded, loopSound,
                   currentSoundFile, soundFileList, lfile, avars, ovars, conv, hvars>>

\* lines 145-146
LoaderPublish ==
    /\ lpc = "publish"
    /\ new_sound_file_loaded' = TRUE
    /\ lpc' = "poll"
    /\ UNCHANGED <<evars, kvars, mvars, xvars, cvars, buffer, sound, sound_file, frame_count, active_channels, soundPath,
                   new_sound_file_request, loopSound,
                   currentSoundFile, soundFileList, lfile, avars, ovars, conv, hvars>>

Loader == \/ LoaderPoll \/ LoaderRead \/ LoaderMatrix \/ LoaderOrient
          \/ LoaderChannels \/ LoaderPad \/ LoaderClearRequest \/ LoaderPublish

---------------------------------------------------------------------------
\* Audio thread: the callback of stream_start's loop

\* application.py 199-201: get_sound_file_list() reads and clears the cell;
\* a playlist found there goes to request_new_sound_file
CallbackStart ==
    /\ apc = "osc"
    /\ IF oscFileList # <<>>
       THEN /\ soundPath' = oscFileList[1]
            /\ soundFileList' = oscFileList
            /\ currentSoundFile' = 1
            /\ new_sound_file_request' = TRUE
            /\ delivered' = <<>>
       ELSE UNCHANGED <<soundPath, soundFileList, currentSoundFile,
                        new_sound_file_request, delivered>>
    /\ oscFileList' = <<>>
    /\ pendingAtStart' = updCount
    /\ lastSetIR' = [n \in Chans |-> NoKey]
    /\ processed' = {}
    /\ apc' = "channels"
    /\ UNCHANGED <<evars, kvars, mvars, xvars, cvars, buffer, sound, sound_file, frame_count, active_channels,
                   new_sound_file_loaded, loopSound, lvars, num_channels, block,
                   dirty, value, conv, fileMsgs, filterMsgs, updCount>>

\* application.py 204
GetSoundChannels ==
    /\ apc = "channels"
    /\ num_channels' = active_channels
    /\ apc' = "read"
    /\ UNCHANGED <<evars, kvars, mvars, xvars, cvars, svars, lvars, block, ovars, conv, hvars>>

\* application.py 205: binsim.block[:num_channels, :] = buffer_read().
\* buffer_read returns a view of the front half, so the caller sees the front
\* half as buffer_add_sound left it.
BufferRead ==
    /\ apc = "read"
    /\ LET adopt == new_sound_file_loaded
           snd   == IF adopt THEN sound_file ELSE sound
           a     == BufferAddSound(IF adopt THEN Flushed ELSE buffer, snd,
                                   IF adopt THEN 0 ELSE frame_count)
           L     == Min(active_channels, N)
           Lb    == Min(num_channels, N)
           fits  == a.ok /\ Assignable(Lb, L)
       IN  /\ sound' = snd
           /\ new_sound_file_loaded' = FALSE
           /\ buffer' = a.buffer
           /\ frame_count' = a.frame_count
           /\ IF a.req # 0
              THEN RequestNext(a.req)
              ELSE UNCHANGED <<currentSoundFile, soundPath, new_sound_file_request>>
           /\ delivered' = LET log == IF adopt /\ currentSoundFile = 1
                                      THEN <<>> ELSE delivered
                            IN  IF a.ok THEN Logged(log, a.buffer.front, L) ELSE log
           /\ block' = IF fits
                       THEN [r \in 1..N |-> IF r > Lb THEN block[r]
                                            ELSE IF L = Lb THEN a.buffer.front[r]
                                            ELSE a.buffer.front[1]]
                       ELSE block
           /\ apc' = IF fits THEN "convolve" ELSE "failed"
    /\ UNCHANGED <<evars, kvars, mvars, xvars, cvars, sound_file, active_channels, loopSound, soundFileList, lvars,
                   num_channels, ovars, conv, fileMsgs, filterMsgs,
                   pendingAtStart, updCount, lastSetIR, processed>>

\* setIR that keeps the transfer functions it had
SetIRKeepsFilter(c, k, x) == [cur |-> c.cur, prev |-> c.cur, interpolate |-> x]

\* ConvolverFFTW.setIR / process as the engine sees them
SetIR(c, k, x) == [cur |-> k, prev |-> c.cur, interpolate |-> x]
Processed(c)   == [c EXCEPT !.interpolate = FALSE]

\* oscReceiver.is_filter_update_necessary(n)
UpdateNecessary(n) == dirty[n]

\* the channel at which the loop of lines 209-219 raises, or 0: convolvers[n]
\* has N entries, and get_filter fails for coordinates without a filter
RaisesAt(n) == n > N \/ (UpdateNecessary(n) /\ ~HasFilter(value[n]))
FirstRaise ==
    IF \E n \in 1..num_channels : RaisesAt(n)
    THEN CHOOSE n \in 1..num_channels :
             RaisesAt(n) /\ \A m \in 1..(n - 1) : ~RaisesAt(m)
    ELSE 0

\* a loop that calls setIR in every callback once coordinates were received
SetsIREveryBlock(n) == value[n] # NoKey /\ HasFilter(value[n])

\* line 212: the loop looks a filter up and calls setIR for channel n
SetsIR(n) == UpdateNecessary(n)

\* application.py 208-243: the channel loop, and the block is returned
Convolve ==
    /\ apc = "convolve"
    /\ LET bad  == FirstRaise
           done == IF bad = 0 THEN 1..num_channels ELSE 1..(bad - 1)
           seen == IF bad = 0 \/ bad > N THEN done ELSE done \cup {bad}
       IN  /\ conv' = [n \in Chans |->
                         IF n \in done
                         THEN Processed(IF SetsIR(n)
                                        THEN SetIR(conv[n], value[n], EnableCrossfading)
                                        ELSE conv[n])
                         ELSE conv[n]]
           /\ lastSetIR' = [n \in Chans |->
                              IF n \in done /\ SetsIR(n) THEN value[n] ELSE NoKey]
           /\ dirty' = [n \in Chans |-> IF n \in seen THEN FALSE ELSE dirty[n]]
           /\ updCount' = [n \in Chans |-> IF n \in seen THEN 0 ELSE updCount[n]]
           /\ processed' = done
           /\ apc' = IF bad = 0 THEN "osc" ELSE "failed"
    /\ UNCHANGED <<evars, kvars, mvars, xvars, cvars, svars, lvars, num_channels, block, oscFileList, value,
                   delivered, fileMsgs, filterMsgs, pendingAtStart>>

Audio == CallbackStart \/ GetSoundChannels \/ BufferRead \/ Convolve

---------------------------------------------------------------------------
\* Control thread: the OscReceiver's handlers

\* /pyBinSimFile <playlist>
FileMsg ==
    /\ fileMsgs < MaxFileMsgs
    /\ \E p \in Playlists : oscFileList' = p
    /\ fileMsgs' = fileMsgs + 1
    /\ UNCHANGED <<evars, kvars, mvars, xvars, cvars, svars, lvars, avars, dirty, value, conv, delivered,
                   filterMsgs, pendingAtStart, updCount, lastSetIR, processed>>

\* /pyBinSimFilter <channel> <coordinates>
FilterMsg ==
    /\ filterMsgs < MaxFilterMsgs
    /\ \E n \in Chans, k \in Keys :
          /\ value' = [value EXCEPT ![n] = k]
          /\ dirty' = [dirty EXCEPT ![n] = TRUE]
          /\ updCount' = [updCount EXCEPT ![n] = Min(updCount[n] + 1, 2)]
    /\ filterMsgs' = filterMsgs + 1
    /\ UNCHANGED <<evars, kvars, mvars, xvars, cvars, svars, lvars, avars, oscFileList, conv, delivered,
                   fileMsgs, pendingAtStart, lastSetIR, processed>>

---------------------------------------------------------------------------
\* ConvolverFFTW with numbers.  block_size is BlockSize = 2, so the FFTs have
\* length 2B = 4 and B + 1 = 3 bins, and with integer samples every bin is a
\* Gaussian integer <<re, im>>: the arithmetic below is the exact one
\* (complex64 rounding is not modelled).

\* IR_size // block_size: partitions of a filter
IR_blocks == 3
\* process calls in a run
MaxHist == 3

CAdd(a, b) == <<a[1] + b[1], a[2] + b[2]>>
CMul(a, b) == <<a[1] * b[1] - a[2] * b[2], a[1] * b[2] + a[2] * b[1]>>
Bins == 1..(BlockSize + 1)
ZeroBins == [k \in Bins |-> <<0, 0>>]
ZeroBlock == [n \in 1..BlockSize |-> 0]

\* pyfftw rfft of 4 real samples: bins 0, 1, 2
rfft(x) == << <<x[1] + x[2] + x[3] + x[4], 0>>,
              <<x[1] - x[3], x[4] - x[2]>>,
              <<x[1] - x[2] + x[3] - x[4], 0>> >>

\* pyfftw irfft of 3 bins to 4 real samples
irfft(X) == << (X[1][1] + 2 * X[2][1] + X[3][1]) \div 4,
               (X[1][1] - 2 * X[2][2] - X[3][1]) \div 4,
               (X[1][1] - 2 * X[2][1] + X[3][1]) \div 4,
               (X[1][1] + 2 * X[2][2] - X[3][1]) \div 4 >>

\* the second half [block_size : 2 * block_size] of a 2B-sample array
SecondHalf(x) == [n \in 1..BlockSize |-> x[BlockSize + n]]

\* filter_fftw_plan: rfft with n = 2 * block_size of one IR block (zero padded)
filter_fftw_plan(h) == rfft(<<h[1], h[2], 0, 0>>)

\* lines 68-71 for block_size = 2: cos^2(0) = 1 and cos^2(pi/2) = 0
crossFadeOut == <<1, 0>>
crossFadeIn  == <<0, 1>>

\* filters as filter_.getFilter() hands them over: IR_left_blocked, IR_right_blocked
FilterIds == {1, 2, 3}
Filter(id) ==
    CASE id = 1 -> [left  |-> << <<1, 0>>, <<0, 0>>, <<0, 0>> >>,
                    right |-> << <<1, 0>>, <<0, 0>>, <<0, 1>> >>]
      [] id = 2 -> [left  |-> << <<0, 1>>, <<1, 0>>, <<0, 0>> >>,
                    right |-> << <<2, 0>>, <<0, 0>>, <<0, 0>> >>]
      [] OTHER  -> [left  |-> << <<1, 1>>, <<0, 1>>, <<1, 0>> >>,
                    right |-> << <<0, 0>>, <<1, 0>>, <<0, 0>> >>]

\* the blocks process is called with: B samples (mono), or the two columns of
\* a (B, 2) block (stereo)
MonoBlocks   == {<<0, 0>>, <<1, 0>>, <<0, 1>>}
StereoBlocks == {<< <<1, 0>>, <<0, 0>> >>, << <<0, 1>>, <<1, 1>> >>}

ZeroTF  == [i \in 1..IR_blocks |-> ZeroBins]
ZeroFDL == [i \in 1..IR_blocks |-> ZeroBins]

\* __init__
ConvolverFFTW(process_stereo) ==
    [ buffer  |-> <<0, 0, 0, 0>>, buffer2 |-> <<0, 0, 0, 0>>,
      TF_left_blocked |-> ZeroTF, TF_right_blocked |-> ZeroTF,
      TF_left_blocked_previous |-> ZeroTF, TF_right_blocked_previous |-> ZeroTF,
      FDL_left |-> ZeroFDL, FDL_right |-> ZeroFDL,
      resultLeftFreq |-> ZeroBins, resultRightFreq |-> ZeroBins,
      resultLeftFreqPrevious |-> ZeroBins, resultRightFreqPrevious |-> ZeroBins,
      outputLeft |-> ZeroBlock, outputRight |-> ZeroBlock,
      processCounter |-> 0, interpolate |-> FALSE, processStereo |-> process_stereo ]

transform_filter(c, f) ==
    [c EXCEPT !.TF_left_blocked  = [i \in 1..IR_blocks |-> filter_fftw_plan(f.left[i])],
              !.TF_right_blocked = [i \in 1..IR_blocks |-> filter_fftw_plan(f.right[i])]]

\* a setIR that also starts the convolver's block count anew
setIRRestarts(c, f, do_interpolation) ==
    [transform_filter([c EXCEPT !.TF_left_blocked_previous  = c.TF_left_blocked,
                                !.TF_right_blocked_previous = c.TF_right_blocked], f)
        EXCEPT !.interpolate = do_interpolation, !.processCounter = 0]

\* lines 208-225
setIR(c, f, do_interpolation) ==
    LET saved == [c EXCEPT !.TF_left_blocked_previous  = c.TF_left_blocked,
                           !.TF_right_blocked_previous = c.TF_right_blocked]
    IN  [transform_filter(saved, f) EXCEPT !.interpolate = do_interpolation]

\* the new block in the back half of a buffer that was not rolled
ShiftInKeep(buf, blk) == <<buf[1], buf[2], blk[1], blk[2]>>
\* np.roll of the FDL by -(block_size + 1): every slot moves down
RollFDLBack(fdl) == [i \in 1..IR_blocks |-> IF i = IR_blocks THEN fdl[1] ELSE fdl[i + 1]]

\* np.roll(buffer, -block_size), then the new block in the back half
ShiftIn(buf, blk) == <<buf[3], buf[4], blk[1], blk[2]>>
\* np.roll(FDL, block_size + 1): every slot moves up, the last one wraps to slot 0
RollFDL(fdl) == [i \in 1..IR_blocks |-> IF i = 1 THEN fdl[IR_blocks] ELSE fdl[i - 1]]

fill_buffer_mono(c, blk) ==
    LET buf == IF c.processCounter = 0
               THEN <<c.buffer[1], c.buffer[2], blk[1], blk[2]>>
               ELSE ShiftIn(c.buffer, blk)
        fl  == IF c.processCounter = 0 THEN c.FDL_left ELSE RollFDL(c.FDL_left)
        fr  == IF c.processCounter = 0 THEN c.FDL_right ELSE RollFDL(c.FDL_right)
    IN  [c EXCEPT !.buffer = buf,
                  !.FDL_left  = [fl EXCEPT ![1] = rfft(buf)],
                  !.FDL_right = [fr EXCEPT ![1] = rfft(buf)]]

fill_buffer_stereo(c, blk) ==
    LET buf  == IF c.processCounter = 0
                THEN <<c.buffer[1], c.buffer[2], blk[1][1], blk[1][2]>>
                ELSE ShiftIn(c.buffer, blk[1])
        buf2 == IF c.processCounter = 0
                THEN <<c.buffer2[1], c.buffer2[2], blk[2][1], blk[2][2]>>
                ELSE ShiftIn(c.buffer2, blk[2])
        fl   == IF c.processCounter = 0 THEN c.FDL_left ELSE RollFDL(c.FDL_left)
        fr   == IF c.processCounter = 0 THEN c.FDL_right ELSE RollFDL(c.FDL_right)
    IN  [c EXCEPT !.buffer = buf, !.buffer2 = buf2,
                  !.FDL_left  = [fl EXCEPT ![1] = rfft(buf)],
                  !.FDL_right = [fr EXCEPT ![1] = rfft(buf2)]]

\* multiply_and_add that adds to the accumulator for every partition
multiply_and_add_keep(i, result, input1, input2) ==
    [k \in Bins |-> CAdd(result[k], CMul(input1[i][k], input2[i][k]))]

\* partition i (1-based) times FDL slot i; partition 1 starts the sum anew
multiply_and_add(i, result, input1, input2) ==
    IF i = 1
    THEN [k \in Bins |-> CMul(input1[i][k], input2[i][k])]
    ELSE [k \in Bins |-> CAdd(result[k], CMul(input1[i][k], input2[i][k]))]

\* the loop of lines 334-354 for one accumulator
RECURSIVE Accumulate(_, _, _, _)
Accumulate(i, result, TF, FDL) ==
    IF i > IR_blocks THEN result
    ELSE Accumulate(i + 1, multiply_and_add(i, result, TF, FDL), TF, FDL)

\* a crossfade with the two windows exchanged
CrossFadeSwapped(new, old) ==
    [n \in 1..BlockSize |-> new[n] * crossFadeOut[n] + old[n] * crossFadeIn[n]]

CrossFade(new, old) ==
    [n \in 1..BlockSize |-> new[n] * crossFadeIn[n] + old[n] * crossFadeOut[n]]

\* the end of process without the reset of the flag
EndProcessKeepsFlag(c) == [c EXCEPT !.processCounter = c.processCounter + 1]

\* lines 377-378
EndProcess(c) == [c EXCEPT !.processCounter = c.processCounter + 1, !.interpolate = FALSE]

process(c, blk) ==
    LET f  == IF c.processStereo THEN fill_buffer_stereo(c, blk) ELSE fill_buffer_mono(c, blk)
        rl == Accumulate(1, f.resultLeftFreq, f.TF_left_blocked, f.FDL_left)
        rr == Accumulate(1, f.resultRightFreq, f.TF_right_blocked, f.FDL_right)
        pl == IF f.interpolate
              THEN Accumulate(1, f.resultLeftFreqPrevious, f.TF_left_blocked_previous, f.FDL_left)
              ELSE f.resultLeftFreqPrevious
        pr == IF f.interpolate
              THEN Accumulate(1, f.resultRightFreqPrevious, f.TF_right_blocked_previous, f.FDL_right)
              ELSE f.resultRightFreqPrevious
        ol == SecondHalf(irfft(rl))
        or == SecondHalf(irfft(rr))
    IN  EndProcess(
          [f EXCEPT !.resultLeftFreq = rl, !.resultRightFreq = rr,
                    !.resultLeftFreqPrevious = pl, !.resultRightFreqPrevious = pr,
                    !.outputLeft  = IF f.interpolate THEN CrossFade(ol, SecondHalf(irfft(pl))) ELSE ol,
                    !.outputRight = IF f.interpolate THEN CrossFade(or, SecondHalf(irfft(pr))) ELSE or])

\* a convolver constructed anew, given setIR(Filter(id), False) and then fed blks
RECURSIVE Feed(_, _, _)
Feed(c, blks, i) == IF i > Len(blks) THEN c ELSE Feed(process(c, blks[i]), blks, i + 1)
FreshRun(id, stereo, blks) == Feed(setIR(ConvolverFFTW(stereo), Filter(id), FALSE), blks, 1)

NoPlain == [st |-> "none", f |-> 0]

\* blocks with fewer than block_size samples: mono a 1-D array of m samples,
\* stereo the two columns of an (m, 2) array
ShortMonoBlocks   == {<<>>, <<1>>}
ShortStereoBlocks == {<< <<>>, <<>> >>, << <<1>>, <<0>> >>}

\* lines 273-278: rows of zeros are appended when block.size, which counts
\* both columns, is below block_size
Appended(col) ==
    IF 2 * Len(col) < BlockSize
    THEN col \o [n \in 1..(BlockSize - 2 * Len(col)) |-> 0]
    ELSE col

\* numpy assignment of a column to the block_size samples buffer[block_size:]:
\* a column of that length is copied, one of length 1 is broadcast
AssignsToHalf(col) == Len(col) = BlockSize \/ Len(col) = 1
AssignedHalf(col) == [n \in 1..BlockSize |-> IF Len(col) = 1 THEN col[1] ELSE col[n]]

\* process raises for the block: mono, np.concatenate of the 1-D block with
\* the 2-D zeros of line 245; stereo, a column that cannot be assigned
ProcessRaises(c, blk) ==
    IF c.processStereo
    THEN ~AssignsToHalf(Appended(blk[1])) \/ ~AssignsToHalf(Appended(blk[2]))
    ELSE Len(blk) < BlockSize

\* the block of block_size samples per channel that a process call which
\* does not raise goes on with
Effective(c, blk) ==
    IF c.processStereo
    THEN <<AssignedHalf(Appended(blk[1])), AssignedHalf(Appended(blk[2]))>>
    ELSE blk

\* the block with trailing zeros up to block_size samples per channel
ZeroPad(col) == col \o [n \in 1..(BlockSize - Len(col)) |-> 0]
ZeroPadded(c, blk) == IF c.processStereo THEN <<ZeroPad(blk[1]), ZeroPad(blk[2])>> ELSE ZeroPad(blk)

\* a caller hands the convolver a filter
CallSetIR ==
    /\ \E id \in FilterIds, x \in BOOLEAN :
          /\ cv' = setIR(cv, Filter(id), x)
          /\ plain' = IF x THEN NoPlain ELSE [st |-> "set", f |-> id]
          /\ fade' = [fade EXCEPT !.asked = fade.asked \/ x, !.last = IF x THEN "true" ELSE "false"]
    /\ lastCall' = "setIR"
    /\ UNCHANGED <<hist, wins, evars, kvars, mvars, xvars, svars, lvars, avars, ovars, conv, hvars>>

\* a caller has a block processed
CallProcess ==
    /\ Len(hist) < MaxHist
    /\ \E blk \in (IF cv.processStereo THEN StereoBlocks ELSE MonoBlocks) :
          /\ cv' = process(cv, blk)
          /\ hist' = Append(hist, blk)
          /\ wins' = Append(wins, <<cv'.buffer, cv'.buffer2>>)
    /\ fade' = [asked |-> FALSE, last |-> "none", used |-> cv.interpolate]
    /\ lastCall' = "process"
    /\ plain' = IF plain.st = "set" THEN [st |-> "done", f |-> plain.f] ELSE NoPlain
    /\ UNCHANGED <<evars, kvars, mvars, xvars, svars, lvars, avars, ovars, conv, hvars>>

\* a caller has a block of fewer than block_size samples processed
CallProcessShort ==
    /\ Len(hist) < MaxHist
    /\ \E blk \in (IF cv.processStereo THEN ShortStereoBlocks ELSE ShortMonoBlocks) :
          IF ProcessRaises(cv, blk)
          THEN /\ lastCall' = "raised"
               /\ UNCHANGED <<cv, hist, wins, plain, fade>>
          ELSE /\ cv' = process(cv, Effective(cv, blk))
               /\ hist' = Append(hist, blk)
               /\ wins' = Append(wins, <<cv'.buffer, cv'.buffer2>>)
               /\ fade' = [asked |-> FALSE, last |-> "none", used |-> cv.interpolate]
               /\ plain' = IF plain.st = "set" THEN [st |-> "done", f |-> plain.f] ELSE NoPlain
               /\ lastCall' = "process"
    /\ UNCHANGED <<evars, kvars, mvars, xvars, svars, lvars, avars, ovars, conv, hvars>>

---------------------------------------------------------------------------
\* Main thread: `with BinSim(...) as binsim: binsim.stream_start()`.  The
\* loop of stream_start is left by an exception only (a KeyboardInterrupt, or
\* one raised in the callback); __exit__ then runs __cleanup.

\* the callback, called from the loop of stream_start
AudioRunning == xpc = "running" /\ Audio

\* an exception leaves the loop of stream_start and __exit__ is entered
LeaveStream ==
    /\ xpc = "running"
    /\ xpc' = "filterStorage"
    /\ shutLog' = Append(shutLog, "engine")
    /\ UNCHANGED <<svars, lvars, avars, ovars, conv, hvars, cvars, mvars, kvars, evars>>

\* self.filterStorage.close()
CloseFilterStorage ==
    /\ xpc = "filterStorage"
    /\ xpc' = "oscReceiver"
    /\ shutLog' = Append(shutLog, "filterStorage")
    /\ UNCHANGED <<svars, lvars, avars, ovars, conv, hvars, cvars, mvars, kvars, evars>>

\* self.oscReceiver.close()
CloseOscReceiver ==
    /\ xpc = "oscReceiver"
    /\ xpc' = "convolvers"
    /\ shutLog' = Append(shutLog, "oscReceiver")
    /\ UNCHANGED <<svars, lvars, avars, ovars, conv, hvars, cvars, mvars, kvars, evars>>

\* the convolvers' close(), the headphone convolver's when it is in use
CloseConvolvers ==
    /\ xpc = "convolvers"
    /\ xpc' = "done"
    /\ \E withHP \in BOOLEAN :
          shutLog' = shutLog \o (IF withHP
                                 THEN <<"convolvers", "convolverHP">>
                                 ELSE <<"convolvers">>)
    /\ UNCHANGED <<svars, lvars, avars, ovars, conv, hvars, cvars, mvars, kvars, evars>>

Cleanup == CloseFilterStorage \/ CloseOscReceiver \/ CloseConvolvers

---------------------------------------------------------------------------
\* The output stage of the callback: the sum of the convolver outputs, the
\* headphone filter, the scaling and the clip test. Samples of result are
\* integers in units of 1 / Unit, so that the division by 2 * num_channels
\* is exact; what a convolver returned is in whole units.

Unit == 2 * N
Abs(x) == IF x < 0 THEN 0 - x ELSE x
Largest(S) == CHOOSE m \in S : \A s \in S : s <= m
Samples(r) == {r.left[n] : n \in 1..BlockSize} \cup {r.right[n] : n \in 1..BlockSize}
\* np.max(np.abs(binsim_result))
Peak(r) == Largest({Abs(s) : s \in Samples(r)})
ZeroResult == [left |-> ZeroBlock, right |-> ZeroBlock]

\* np.empty([blockSize, 2]): whatever the memory held, here silence or 2.0 and -2.0
JunkResults == {ZeroResult, [left |-> <<2 * Unit, 0>>, right |-> <<0, 0 - 2 * Unit>>]}
LoudnessFactors == {1, 3}
MaxCallbacks == 3

\* the (left, right) pairs convolver.process returns, in whole units
ConvolverOutputs ==
    { [left |-> <<0, 0>>, right |-> <<0, 0>>],
      [left |-> <<1, 0 - 3>>, right |-> <<0, 1>>],
      [left |-> <<3, 3>>, right |-> <<0 - 3, 1>>] }
OutputsOf(C) == IF C = 0 THEN {<<>>} ELSE [1..C -> ConvolverOutputs]

\* lines 209 and 222-227: channel 0 overwrites result, the others are added
RECURSIVE Mixed(_, _, _)
Mixed(res, o, n) ==
    IF n > Len(o) THEN res
    ELSE Mixed(IF n = 1
               THEN [left  |-> [k \in 1..BlockSize |-> Unit * o[n].left[k]],
                     right |-> [k \in 1..BlockSize |-> Unit * o[n].right[k]]]
               ELSE [left  |-> [k \in 1..BlockSize |-> res.left[k] + Unit * o[n].left[k]],
                     right |-> [k \in 1..BlockSize |-> res.right[k] + Unit * o[n].right[k]]],
               o, n + 1)

\* a result that is not divided
ScaledNot(res, C) == res

\* lines 236-237
Scaled(res, C) ==
    IF C # 0
    THEN [left  |-> [k \in 1..BlockSize |-> res.left[k] \div (C * 2)],
          right |-> [k \in 1..BlockSize |-> res.right[k] \div (C * 2)]]
    ELSE res

\* line 238
Loud(res, factor) ==
    [left  |-> [k \in 1..BlockSize |-> res.left[k] * factor],
     right |-> [k \in 1..BlockSize |-> res.right[k] * factor]]

\* a clip test on the signed samples
ClipsSigned(res) == Largest(Samples(res)) > Unit

\* line 240
Clips(res) == Peak(res) > Unit

\* lines 209-243 of one callback, for the channel count and the convolver
\* outputs it got
Mix ==
    /\ callbacks < MaxCallbacks
    /\ \E C \in 0..N :
          \* active_channels is 0 until the loader has read the first file
          /\ C = 0 => mixC = 0
          /\ \E o \in OutputsOf(C) :
                LET summed == Mixed(binsim_result, o, 1)
                    hp  == IF useHeadphoneFilter
                           THEN process(convolverHP, <<summed.left, summed.right>>)
                           ELSE convolverHP
                    eq  == IF useHeadphoneFilter
                           THEN [left |-> hp.outputLeft, right |-> hp.outputRight]
                           ELSE summed
                    out == Loud(Scaled(eq, C), loudnessFactor)
                IN  /\ binsim_result' = out
                    /\ convolverHP' = hp
                    /\ warnings' = IF Clips(out) THEN 1 ELSE 0
                    /\ emitted' = out
                    /\ mixC' = C
                    /\ outs' = o
    /\ callbacks' = callbacks + 1
    /\ UNCHANGED <<useHeadphoneFilter, loudnessFactor,
                   svars, lvars, avars, ovars, conv, hvars, cvars, xvars, kvars, evars>>

\* lines 142 and 174-178: result is allocated, the headphone convolver is
\* made and given its filter when the configuration asks for it
InitMixWith(junk, hp, louds) ==
    /\ binsim_result \in junk
    /\ useHeadphoneFilter \in hp
    /\ convolverHP \in IF useHeadphoneFilter
                       THEN {setIR(ConvolverFFTW(TRUE), Filter(id), FALSE) : id \in FilterIds}
                       ELSE {"None"}
    /\ loudnessFactor \in louds
    /\ mixC = 0
    /\ outs = <<>>
    /\ warnings = 0
    /\ emitted = "None"
    /\ callbacks = 0

---------------------------------------------------------------------------
\* BinSimConfig: the configuration file is read line by line. Values are
\* written as Python prints them: "True", "False", "None", "256"

ConfigKeys == {"soundfile", "blockSize", "enableCrossfading", "useHeadphoneFilter", "loopSound"}
BoolKeys == {"enableCrossfading", "useHeadphoneFilter", "loopSound"}
IntKeys == {"blockSize"}

\* lines 57-66
DefaultConfig ==
    [k \in ConfigKeys |->
        CASE k = "soundfile" -> ""
          [] k = "blockSize" -> "256"
          [] k = "loopSound" -> "True"
          [] OTHER -> "False"]

\* the lines a file may hold: a key, known or not, and a value
MaxLines == 2
LineKeys == ConfigKeys \cup {"volume"}
LineValues == {"True", "False", "yes", "512"}

\* parse_boolean of a str, lines 43-48
parse_boolean(any_value) ==
    IF any_value = "True" THEN "True"
    ELSE IF any_value = "False" THEN "False"
    ELSE "None"

\* int(value) raises ValueError unless value is a numeral
IntRaises(v) == v \notin {"512"}

\* line 87
StoreBoolean(dict, key, boolean_config) == [dict EXCEPT ![key] = boolean_config]

\* one pass of the loop of read_from_file, lines 71-93
ReadLine ==
    /\ configState = "reading"
    /\ Len(configRead) < MaxLines
    /\ \E key \in LineKeys, v \in LineValues :
          /\ configRead' = Append(configRead, <<key, v>>)
          /\ IF key \in ConfigKeys
             THEN IF key \in BoolKeys
                  THEN /\ configLog' = IF parse_boolean(v) = "None"
                                       THEN Append(configLog, "Cannot convert")
                                       ELSE configLog
                       /\ configurationDict' = StoreBoolean(configurationDict, key, parse_boolean(v))
                       /\ configState' = configState
                  ELSE IF key \in IntKeys /\ IntRaises(v)
                       THEN /\ configState' = "raised"
                            /\ UNCHANGED <<configurationDict, configLog>>
                       ELSE /\ configurationDict' = [configurationDict EXCEPT ![key] = v]
                            /\ UNCHANGED <<configLog, configState>>
             ELSE /\ configLog' = Append(configLog, "unknown")
                  /\ UNCHANGED <<configurationDict, configState>>
    /\ UNCHANGED <<svars, lvars, avars, ovars, conv, hvars, cvars, xvars, mvars, evars>>

\* BinSimConfig.__init__
InitConfig ==
    /\ configurationDict = DefaultConfig
    /\ configLog = <<>>
    /\ configRead = <<>>
    /\ configState = "reading"

---------------------------------------------------------------------------
\* SoundSceneHandler with one SoundEvent of a one-channel sound. A chunk is
\* <<"ev", k>> (chunk k of the sound), Zero (a chunk of zeros) or None.

None == <<"none", 0>>
\* add_info = None: the command came without a third element
NoArg == 0 - 1
\* the rows of the scene, as Python counts them
ChannelArgs == 0..(N - 1)
\* sound.shape[1] / chunk_size of the sounds an event may hold
MaxChunks == 3
ChunkCounts == 1..MaxChunks
EventCommands == {"pause", "stop", "start", "sendto"}

\* SoundEvent.__init__ for a file of type 'l' (looped, running) or 's'/'t'
SoundEvent(loops, chunks) ==
    [is_running |-> loops, channel |-> 0, frame_count |-> 0,
     loopSound |-> loops, chunks |-> chunks]

\* `if channel:` is false for None and for 0
Truthy(channel) == channel # NoArg /\ channel # 0

\* lines 188-193
start_sound(e, channel) ==
    [e EXCEPT !.channel = IF Truthy(channel) THEN channel ELSE @, !.is_running = TRUE]
\* lines 195-198
stop_sound(e) == [e EXCEPT !.frame_count = 0, !.is_running = FALSE]
\* lines 200-202
pause_sound(e) == [e EXCEPT !.is_running = FALSE]
\* lines 221-222
place_sound(e, channel) == [e EXCEPT !.channel = channel]

\* SoundEvent.request_chunk, lines 204-219: the event left behind and the
\* chunk returned
request_chunk(e) ==
    IF (e.frame_count + 1) * BlockSize < e.chunks * BlockSize /\ e.is_running
    THEN [ev |-> [e EXCEPT !.frame_count = e.frame_count + 1],
          chunk |-> <<"ev", e.frame_count>>]
    ELSE IF e.loopSound /\ e.is_running
    THEN [ev |-> [e EXCEPT !.frame_count = 1], chunk |-> <<"ev", 0>>]
    ELSE IF e.is_running
    THEN [ev |-> [e EXCEPT !.frame_count = 0, !.is_running = FALSE], chunk |-> Zero]
    ELSE [ev |-> e, chunk |-> None]

\* the record of a request_chunk call on the event: what it returned, the
\* commands before it, the event before and the cursor after
Returned(r, via) ==
    [chunk |-> r.chunk, cmds |-> evCmds, start |-> evStart, was_running |-> ev.is_running,
     before |-> ev.frame_count, after |-> r.ev.frame_count,
     delivered |-> evDelivered, via |-> via]

\* the bookkeeping of a request_chunk call on the event
EventCalled(r, via) ==
    /\ ev' = r.ev
    /\ evRet' = Returned(r, via)
    /\ evCmds' = IF r.chunk = None THEN evCmds ELSE <<>>
    /\ evStart' = NoArg
    /\ evDelivered' = IF r.chunk = None THEN evDelivered
                      ELSE IF r.chunk = Zero THEN NoArg ELSE r.chunk[2]

\* the commands since the last chunk with one more: pause or stop, then
\* start, are noted as they came, every other sequence as "other"
Noted(cmds, command) ==
    IF cmds = <<>> /\ command \in {"pause", "stop"} THEN <<command>>
    ELSE IF Len(cmds) = 1 /\ cmds[1] \in {"pause", "stop"} /\ command = "start"
    THEN <<cmds[1], command>>
    ELSE <<"other">>

\* SoundSceneHandler.control_sound_event, lines 98-115
ControlSoundEvent ==
    /\ \E command \in EventCommands,
          add_info \in ChannelArgs \cup {NoArg} :
          /\ command \in {"pause", "stop"} => add_info = NoArg
          /\ command = "sendto" => add_info # NoArg
          /\ ev' = CASE command = "pause" -> pause_sound(ev)
                     [] command = "stop"  -> stop_sound(ev)
                     [] command = "start" -> start_sound(ev, add_info)
                     [] OTHER             -> place_sound(ev, add_info)
          /\ evCmds' = Noted(evCmds, command)
          /\ evStart' = IF command = "start" THEN add_info ELSE NoArg
    /\ UNCHANGED <<scene_chunk, evRet, evDelivered,
                   svars, lvars, avars, ovars, conv, hvars, cvars, xvars, mvars, kvars>>

\* SoundSceneHandler.request_chunk, lines 82-96
SceneRequestChunk ==
    /\ IF ev.is_running
       THEN LET r == request_chunk(ev)
            IN  /\ EventCalled(r, "scene")
                /\ scene_chunk' = [row \in 1..N |->
                                     IF row = ev.channel + 1 THEN r.chunk ELSE Zero]
       ELSE /\ scene_chunk' = [row \in 1..N |-> Zero]
            /\ evRet' = [evRet EXCEPT !.via = "idle"]
            /\ UNCHANGED <<ev, evCmds, evStart, evDelivered>>
    /\ UNCHANGED <<svars, lvars, avars, ovars, conv, hvars, cvars, xvars, mvars, kvars>>

\* SoundEvent.request_chunk called on the event itself, running or not
EventRequestChunk ==
    /\ EventCalled(request_chunk(ev), "event")
    /\ UNCHANGED <<scene_chunk,
                   svars, lvars, avars, ovars, conv, hvars, cvars, xvars, mvars, kvars>>

\* SoundSceneHandler.__init__ and read_sound_files for one file
InitEvent(loops, chunks) ==
    /\ ev \in {SoundEvent(l, c) : l \in loops, c \in chunks}
    /\ scene_chunk = [row \in 1..N |-> Zero]
    /\ evCmds = <<>>
    /\ evStart = NoArg
    /\ evRet = [chunk |-> None, cmds |-> <<>>, start |-> NoArg, was_running |-> FALSE,
                before |-> 0, after |-> 0, delivered |-> NoArg, via |-> "idle"]
    /\ evDelivered = NoArg

---------------------------------------------------------------------------
\* The state BinSim.__init__ leaves: initialize_pybinsim has started the
\* loader thread and requested the configured playlist

InitCore(lists, loops, stereo) ==
    /\ cv \in {ConvolverFFTW(st) : st \in stereo}
    /\ hist = <<>>
    /\ wins = <<>>
    /\ fade = [asked |-> FALSE, last |-> "none", used |-> FALSE]
    /\ lastCall = "none"
    /\ plain = NoPlain
    /\ xpc = "running"
    /\ shutLog = <<>>
    /\ buffer = Flushed
    /\ sound = EmptySound
    /\ sound_file = EmptySound
    /\ frame_count = 0
    /\ active_channels = 0
    /\ soundFileList \in lists
    /\ soundPath = soundFileList[1]
    /\ currentSoundFile = 1
    /\ new_sound_file_request = TRUE
    /\ new_sound_file_loaded = FALSE
    /\ loopSound \in loops
    /\ lpc = "poll"
    /\ lfile = ""
    /\ apc = "osc"
    /\ num_channels = 0
    /\ block = [r \in 1..N |-> Junk]
    /\ oscFileList = <<>>
    /\ dirty = [n \in Chans |-> FALSE]
    /\ value = [n \in Chans |-> NoKey]
    /\ conv = [n \in Chans |-> [cur |-> ZeroFilter, prev |-> ZeroFilter, interpolate |-> FALSE]]
    /\ delivered = <<>>
    /\ fileMsgs = 0
    /\ filterMsgs = 0
    /\ pendingAtStart = [n \in Chans |-> 0]
    /\ updCount = [n \in Chans |-> 0]
    /\ lastSetIR = [n \in Chans |-> NoKey]
    /\ processed = {}

InitWith(lists, loops, stereo) ==
    /\ InitCore(lists, loops, stereo) /\ InitMixWith({ZeroResult}, {FALSE}, {1})
    /\ InitConfig /\ InitEvent({TRUE}, {1})

\* playback and loading, with playlist changes over OSC
Init == InitWith(Playlists, BOOLEAN, {FALSE})
Next == Loader \/ Audio \/ FileMsg
Spec == Init /\ [][Next]_vars

\* the engine under filter updates, playing a mono or a stereo file once
InitEngine == InitWith({<<"a">>, <<"s">>}, {FALSE}, {FALSE})
NextEngine == Loader \/ Audio \/ FilterMsg
SpecEngine == InitEngine /\ [][NextEngine]_vars

---------------------------------------------------------------------------
\* Playlist delivery

\* the configured playlist a#b has played to its end and nothing further was requested
PlaylistDone ==
    /\ ~loopSound /\ fileMsgs = 0
    /\ soundFileList = <<"a", "b">> /\ currentSoundFile = 2
    /\ sound.f = "b"
    /\ ~new_sound_file_request /\ ~new_sound_file_loaded
    /\ buffer = Flushed /\ apc = "osc"
    /\ (frame_count + 1) * BlockSize >= sound.cols

\* C1: with loopSound=false and the playlist a#b of two 2-block files, the
\* non-silent blocks buffer_read delivers are block 0 of a, block 1 of a,
\* block 0 of b, block 1 of b: once playback of a has started, every block of
\* every file, the last included, exactly once and in playlist order.
C1_EveryBlockInOrder ==
    (PlaylistDone /\ delivered # <<>> /\ delivered[1] = <<"a", 0>>)
    => delivered = << <<"a", 0>>, <<"a", 1>>, <<"b", 0>>, <<"b", 1>> >>

\* C2: once a request_new_sound_file(p) that no other request follows has been
\* served (no request pending, nothing staged, loader idle), the first file of
\* p is the active source - also when the call came while the loader was
\* loading an earlier request.
C2_RequestedFileAdopted ==
    ( /\ ~loopSound /\ currentSoundFile = 1 /\ Loadable(soundPath)
      /\ oscFileList = <<>> /\ fileMsgs = MaxFileMsgs
      /\ ~new_sound_file_request /\ ~new_sound_file_loaded
      /\ lpc = "poll" /\ apc # "failed" )
    => sound.f = soundPath

\* a completely prepared source: (channels, samples), samples a multiple of B
Prepared(m) == m.rows = Channels(m.f) /\ m.cols % BlockSize = 0

\* C3: the source buffer_read adopted is always a completely prepared one,
\* never an intermediate value of the loader.
C3_AdoptsPreparedSource == sound = EmptySound \/ Prepared(sound)

\* C4: a failed load does not end the loader: whenever a loadable file is
\* requested the loader thread is running to serve it.
C4_LoaderSurvivesFailure ==
    (new_sound_file_request /\ Loadable(soundPath)) => lpc # "dead"

\* C5: the step in which a load fails leaves the active source, the cursor,
\* active_channels, the loaded flag and the staged buffer as they were.
C5_FailedLoadPublishesNothing ==
    [][(lpc # "dead" /\ lpc' = "dead") =>
          UNCHANGED <<sound, frame_count, active_channels,
                      new_sound_file_loaded, sound_file>>]_vars

\* a load failed while a source was playing
C5_Witness ==
    /\ lpc = "dead" /\ sound # EmptySound /\ frame_count > 0
    /\ active_channels = sound.rows /\ ~Loadable(lfile)

\* C6: get_sound_channels() never exceeds maxChannels.
C6_ActiveChannelsWithinMax == active_channels <= N

---------------------------------------------------------------------------
\* Filter updates in the callback

C8_TwoUpdatesOneSetIR ==
    (apc = "osc" /\ sound # EmptySound /\ num_channels >= 1)
    => \A n \in Chans : pendingAtStart[n] = 2 => lastSetIR[n] # NoKey

\* C8 (amended): the callback that processes a channel after two updates
\* makes one setIR call, with the second update's coordinates, and consumes
\* the flag; a callback makes no setIR call on a channel without a new update;
\* every filter a convolver gets is the one of the latest coordinates.
C8_UpdatesCollapseToLatest ==
    [][\A n \in Chans :
          /\ (apc = "convolve" /\ updCount[n] = 2 /\ n \in processed')
                => (lastSetIR'[n] = value[n] /\ conv'[n].cur = value[n] /\ ~dirty'[n])
          /\ (apc = "convolve" /\ apc' # apc /\ updCount[n] = 0)
                => (lastSetIR'[n] = NoKey /\ conv'[n].cur = conv[n].cur
                                          /\ conv'[n].prev = conv[n].prev)
          /\ (conv'[n] # conv[n]) => (apc = "convolve" /\ conv'[n].cur \in {conv[n].cur, value[n]})
      ]_vars

\* two updates arrived before a callback, which made the only setIR call the
\* convolver ever got, with the second one's coordinates
C8_Witness ==
    \E n \in Chans :
        /\ apc = "osc" /\ n \in processed /\ pendingAtStart[n] = 2
        /\ lastSetIR[n] = value[n] /\ conv[n].cur = value[n]
        /\ conv[n].prev = ZeroFilter /\ ~dirty[n]

\* C9: a pending update whose coordinates have no filter does not stop the
\* callback: the channel's convolver keeps its filters and flag, the block is
\* processed and emitted, the audio thread goes on.
C9_MissingFilterKeepsPlaying ==
    [][\A n \in 1..Min(num_channels, N) :
          (apc = "convolve" /\ apc' # apc /\ dirty[n] /\ ~HasFilter(value[n]))
             => (apc' = "osc" /\ n \in processed' /\ conv'[n] = conv[n])
      ]_vars

---------------------------------------------------------------------------
\* One convolver, mono or stereo, under any sequence of setIR and process

InitConvolver == InitWith({<<"a">>}, {FALSE}, BOOLEAN)
NextConvolver == CallSetIR \/ CallProcess
SpecConvolver == InitConvolver /\ [][NextConvolver]_vars

\* C10: the output of the process call that follows setIR(h, False) is the
\* output of a new convolver that got setIR(h, False) first and was then fed
\* the same blocks.
C10_PlainSetIRForgetsOldFilters ==
    plain.st = "done" =>
        LET fresh == FreshRun(plain.f, cv.processStereo, hist)
        IN  /\ cv.outputLeft  = fresh.outputLeft
            /\ cv.outputRight = fresh.outputRight

\* the convolver had processed blocks with another filter, crossfading
\* included, before the setIR(h, False) and the process call compared
C10_Witness ==
    /\ plain.st = "done" /\ cv.processCounter = MaxHist
    /\ cv.TF_left_blocked_previous # ZeroTF
    /\ cv.TF_left_blocked_previous # cv.TF_left_blocked
    /\ cv.resultLeftFreqPrevious # ZeroBins
    /\ cv.outputLeft # ZeroBlock /\ cv.outputRight # ZeroBlock

---------------------------------------------------------------------------
\* channel ch (1 or 2) of the block of process call j; zeros before the first
BlockOf(j, ch) ==
    IF j < 1 THEN ZeroBlock ELSE IF cv.processStereo THEN hist[j][ch] ELSE hist[j]

\* the spectrum FDL slot i (1-based) of a side is to hold: of the buffer
\* transformed i - 1 calls ago; side 1 is FDL_left, side 2 FDL_right (which
\* takes buffer2 in a stereo convolver)
SlotSpectrum(i, side) ==
    IF i <= Len(wins)
    THEN rfft(wins[Len(wins) - i + 1][IF cv.processStereo THEN side ELSE 1])
    ELSE ZeroBins

\* bin k of the sum over the partitions i.. of partition i times the
\* spectrum of slot i
RECURSIVE BinSum(_, _, _, _)
BinSum(i, TF, side, k) ==
    IF i > IR_blocks THEN <<0, 0>>
    ELSE CAdd(CMul(TF[i][k], SlotSpectrum(i, side)[k]), BinSum(i + 1, TF, side, k))
SumParts(i, TF, side) == [k \in Bins |-> BinSum(i, TF, side, k)]

FDLHoldsLastWindows ==
    \A i \in 1..IR_blocks :
        /\ cv.FDL_left[i]  = SlotSpectrum(i, 1)
        /\ cv.FDL_right[i] = SlotSpectrum(i, 2)

\* C11: after every process call FDL slot i of both sides holds the spectrum
\* of the window transformed i calls ago (zero when there were fewer calls),
\* and the call has multiplied filter partition i with that slot.
C11_SlotHoldsWindowOfItsAge ==
    /\ FDLHoldsLastWindows
    /\ lastCall = "process" =>
          /\ cv.resultLeftFreq  = SumParts(1, cv.TF_left_blocked, 1)
          /\ cv.resultRightFreq = SumParts(1, cv.TF_right_blocked, 2)

\* as many calls as partitions, three different windows in the slots and a
\* filter whose last partition is not zero
C11_Witness ==
    /\ Len(wins) = IR_blocks /\ lastCall = "process"
    /\ \A i \in 1..IR_blocks : cv.FDL_left[i] # ZeroBins
    /\ cv.FDL_left[1] # cv.FDL_left[2] /\ cv.FDL_left[2] # cv.FDL_left[3]
    /\ cv.FDL_left[1] # cv.FDL_left[3]
    /\ cv.TF_left_blocked[IR_blocks] # ZeroBins
    /\ cv.resultLeftFreq # ZeroBins

\* C14: the buffer every process call transforms has the previous call's block
\* in its front half (zeros at the first call) and the block passed in its
\* back half, buffer2 likewise with channel 1 in a stereo convolver; slot 0 of
\* the FDL is its transform.
C14_BufferIsPreviousThenCurrent ==
    /\ \A j \in 1..Len(wins) :
          /\ wins[j][1] = BlockOf(j - 1, 1) \o BlockOf(j, 1)
          /\ cv.processStereo => wins[j][2] = BlockOf(j - 1, 2) \o BlockOf(j, 2)
    /\ Len(wins) = Len(hist)
    /\ Len(wins) >= 1 =>
          /\ cv.buffer = wins[Len(wins)][1] /\ cv.buffer2 = wins[Len(wins)][2]
          /\ cv.FDL_left[1]  = rfft(cv.buffer)
          /\ cv.FDL_right[1] = rfft(IF cv.processStereo THEN cv.buffer2 ELSE cv.buffer)

\* a stereo convolver after two calls with different blocks, both channels used
C14_Witness ==
    /\ cv.processStereo /\ Len(hist) >= 2
    /\ hist[1] # hist[2]
    /\ hist[1][1] # ZeroBlock /\ hist[2][2] # ZeroBlock
    /\ cv.buffer # cv.buffer2

---------------------------------------------------------------------------
\* the block a filter gives for the inputs so far: the back half of the
\* inverse transform of the partition sum
FilterOutput(TF, side) == SecondHalf(irfft(SumParts(1, TF, side)))

\* C12 (as stated): after a setIR(h, True) the next process call produces a
\* crossfade block.
C12_NextBlockAfterFadeRequestFades ==
    [][(lastCall' = "process" /\ fade.asked) => fade'.used]_vars

\* C12 (amended): the flag is false after every process call and is otherwise
\* the do_interpolation of the latest setIR; a process call crossfades the
\* old-filter and new-filter outputs exactly when it starts with the flag set,
\* and otherwise returns the output of the current filter alone.
C12_FadeOnlyWhenLatestSetIRAsked ==
    /\ cv.interpolate = (fade.last = "true")
    /\ lastCall = "process" =>
          /\ ~cv.interpolate
          /\ LET newL == FilterOutput(cv.TF_left_blocked, 1)
                 newR == FilterOutput(cv.TF_right_blocked, 2)
                 oldL == FilterOutput(cv.TF_left_blocked_previous, 1)
                 oldR == FilterOutput(cv.TF_right_blocked_previous, 2)
             IN  IF fade.used
                 THEN /\ cv.outputLeft  = [n \in 1..BlockSize |->
                                             newL[n] * crossFadeIn[n] + oldL[n] * crossFadeOut[n]]
                      /\ cv.outputRight = [n \in 1..BlockSize |->
                                             newR[n] * crossFadeIn[n] + oldR[n] * crossFadeOut[n]]
                 ELSE /\ cv.outputLeft = newL /\ cv.outputRight = newR

\* a block after the crossfade block: the old filter would have given another
\* block, the output is the current filter's
C12_Witness ==
    /\ lastCall = "process" /\ ~fade.used /\ Len(hist) = MaxHist
    /\ cv.TF_left_blocked_previous # ZeroTF
    /\ cv.resultLeftFreqPrevious # ZeroBins
    /\ FilterOutput(cv.TF_left_blocked_previous, 1) # FilterOutput(cv.TF_left_blocked, 1)
    /\ cv.outputLeft # ZeroBlock

---------------------------------------------------------------------------
\* C13 (as stated): the first sample of the transition block is the
\* new-filter output, the last sample the old-filter output.
C13_FadeStartsAtNewFilter ==
    (lastCall = "process" /\ fade.used) =>
        /\ cv.outputLeft[1] = FilterOutput(cv.TF_left_blocked, 1)[1]
        /\ cv.outputLeft[BlockSize] = FilterOutput(cv.TF_left_blocked_previous, 1)[BlockSize]
        /\ cv.outputRight[1] = FilterOutput(cv.TF_right_blocked, 2)[1]
        /\ cv.outputRight[BlockSize] = FilterOutput(cv.TF_right_blocked_previous, 2)[BlockSize]

\* C13 (amended): the windows have weight 1 on the old filter and 0 on the new
\* one at the first sample, and 0 on the old and 1 on the new at the last: the
\* transition block starts as the old-filter output and ends as the new one.
C13_FadeStartsAtOldFilter ==
    /\ crossFadeOut[1] = 1 /\ crossFadeIn[1] = 0
    /\ crossFadeOut[BlockSize] = 0 /\ crossFadeIn[BlockSize] = 1
    /\ (lastCall = "process" /\ fade.used) =>
          /\ cv.outputLeft[1] = FilterOutput(cv.TF_left_blocked_previous, 1)[1]
          /\ cv.outputLeft[BlockSize] = FilterOutput(cv.TF_left_blocked, 1)[BlockSize]
          /\ cv.outputRight[1] = FilterOutput(cv.TF_right_blocked_previous, 2)[1]
          /\ cv.outputRight[BlockSize] = FilterOutput(cv.TF_right_blocked, 2)[BlockSize]

\* a transition block whose two filters disagree at the first and at the last
\* sample
C13_Witness ==
    /\ lastCall = "process" /\ fade.used
    /\ FilterOutput(cv.TF_left_blocked, 1)[1] # FilterOutput(cv.TF_left_blocked_previous, 1)[1]
    /\ FilterOutput(cv.TF_left_blocked, 1)[BlockSize]
          # FilterOutput(cv.TF_left_blocked_previous, 1)[BlockSize]
    /\ cv.TF_left_blocked_previous # ZeroTF

---------------------------------------------------------------------------
\* One convolver that is also given blocks shorter than block_size

NextShortBlocks == CallSetIR \/ CallProcess \/ CallProcessShort
SpecShortBlocks == InitConvolver /\ [][NextShortBlocks]_vars

\* the last block of hist has fewer than block_size samples
LastIsShort(h, stereo) ==
    /\ h # <<>>
    /\ IF stereo THEN Len(h[Len(h)][1]) < BlockSize ELSE Len(h[Len(h)]) < BlockSize

\* C15: a process call with a block of fewer than block_size samples does not
\* raise and leaves the convolver as the call with the zero-padded block does.
C15_ShortBlockIsZeroPadded ==
    [][ /\ lastCall' # "raised"
        /\ (hist' # hist /\ LastIsShort(hist', cv.processStereo))
              => cv' = process(cv, ZeroPadded(cv, hist'[Len(hist')]))
      ]_vars

---------------------------------------------------------------------------
\* C16: a buffer_read call that requests the next playlist entry, and every
\* call after it that does not yet adopt that entry, returns silence.
C16_SilenceWhileNextEntryLoads ==
    [][ (/\ apc = "read" /\ apc' = "convolve"
         /\ ~new_sound_file_loaded
         /\ new_sound_file_request' /\ currentSoundFile' >= 2
         /\ num_channels >= 1)
        => block'[1] = Zero
      ]_vars

---------------------------------------------------------------------------
\* C17: with loopSound and no new playlist, no block of an entry is delivered
\* a second time before the playlist's first entry is adopted again (the log
\* starts anew at that adoption).
C17_LoopDoesNotReplayFinishedEntry ==
    (loopSound /\ fileMsgs = 0) =>
        \A i, j \in 1..Len(delivered) : i # j => delivered[i] # delivered[j]

---------------------------------------------------------------------------
\* the last playlist entry is the active source, its last block was copied,
\* nothing is requested, loaded or waiting, and loopSound is off
Ended ==
    /\ ~loopSound
    /\ sound # EmptySound /\ sound.f = soundFileList[Len(soundFileList)]
    /\ currentSoundFile = Len(soundFileList)
    /\ (frame_count + 1) * BlockSize >= sound.cols
    /\ ~new_sound_file_request /\ ~new_sound_file_loaded
    /\ oscFileList = <<>> /\ lpc = "poll"

\* C18: once the last entry has ended without loop, and as long as no playlist
\* message arrives, nothing is requested and source and cursor stay; every
\* buffer_read returns what the back half held and leaves silence there, so
\* from the second call on every returned block is silence.
C18_SilenceAfterPlaylistEnd ==
    [][ (Ended /\ fileMsgs' = fileMsgs) =>
           /\ Ended'
           /\ sound' = sound /\ frame_count' = frame_count
           /\ soundPath' = soundPath /\ sound_file' = sound_file
           /\ (apc = "read" /\ apc' # apc) =>
                 \A r \in 1..Min(active_channels, N) :
                     /\ buffer'.front[r] = buffer.back[r]
                     /\ buffer'.back[r] = Zero
                     /\ (buffer.back[r] = Zero => buffer'.front[r] = Zero)
      ]_vars

\* after the end of the playlist the callback got a silent block, with audio
\* delivered before
C18_Witness ==
    /\ Ended /\ apc = "convolve" /\ delivered # <<>>
    /\ num_channels >= 1 /\ block[1] = Zero
    /\ buffer.front[1] = Zero /\ buffer.back[1] = Zero

---------------------------------------------------------------------------
\* The engine playing one file, interrupted at any moment and shut down; the
\* threads keep running and the main thread goes through __cleanup

InitShutdown == InitWith({<<"a">>, <<"s">>}, {FALSE}, {FALSE})
NextShutdown == Loader \/ AudioRunning \/ LeaveStream \/ Cleanup
SpecShutdown == /\ InitShutdown /\ [][NextShutdown]_vars
                /\ WF_vars(Loader) /\ WF_vars(AudioRunning) /\ WF_vars(Cleanup)

\* place of a shutdown step in the order engine stop, control thread join,
\* loader thread join, filter storage close, convolver close
ShutdownRank(step) ==
    CASE step = "engine"        -> 1
      [] step = "oscReceiver"   -> 2
      [] step = "loader"        -> 3
      [] step = "filterStorage" -> 4
      [] OTHER                  -> 5

\* C19: the steps of the shutdown are completed in the order audio loop,
\* control thread, loader thread, filter storage, convolvers, none before all
\* the earlier ones.
C19_ShutdownInOrder ==
    \A j \in 1..Len(shutLog) :
        /\ \A i \in 1..(j - 1) : ShutdownRank(shutLog[i]) <= ShutdownRank(shutLog[j])
        /\ \A r \in 1..(ShutdownRank(shutLog[j]) - 1) :
              \E i \in 1..(j - 1) : ShutdownRank(shutLog[i]) = r

\* C20: once the shutdown has begun, the loader thread ends.
C20_ShutdownEndsThreads ==
    (xpc # "running") ~> (lpc \in {"exited", "dead"})

---------------------------------------------------------------------------
\* The output stage under any channel counts and convolver outputs, with and
\* without the headphone filter

InitMix == InitCore({<<"a">>}, {FALSE}, {FALSE})
              /\ InitMixWith(JunkResults, BOOLEAN, LoudnessFactors) /\ InitConfig
              /\ InitEvent({TRUE}, {1})
NextMix == Mix
SpecMix == InitMix /\ [][NextMix]_vars

\* C21: a callback logs one clip warning when the peak of the block it emits
\* is above 1.0 and none otherwise; the block is emitted in both cases.
C21_ClipWarningIffPeakAboveOne ==
    callbacks >= 1 =>
        /\ emitted = binsim_result
        /\ warnings = (IF Peak(emitted) > Unit THEN 1 ELSE 0)

\* a block that clips only with a negative sample, and one that does not clip
C21_Witness ==
    /\ callbacks >= 1 /\ warnings = 1
    /\ Largest(Samples(emitted)) <= Unit /\ Peak(emitted) > Unit


---------------------------------------------------------------------------
\* the largest absolute sample over the convolver outputs of a callback, in
\* whole units
MaxOut(o) ==
    Largest({0} \cup UNION {{Abs(s) : s \in Samples(o[i])} : i \in 1..Len(o)})

\* C22 (as stated): with 1 <= C <= N active channels the peak of the emitted
\* block is at most loudnessFactor times the largest absolute sample of the
\* C convolver outputs of that block, with and without the headphone filter.
C22_PeakWithinLoudestChannel ==
    (callbacks >= 1 /\ mixC >= 1)
    => Peak(emitted) <= loudnessFactor * Unit * MaxOut(outs)

\* C22 (amended): without the headphone filter the peak of the emitted block
\* is at most loudnessFactor times the largest absolute sample of the C
\* convolver outputs; with it, the emitted block is the output of the
\* headphone convolver divided by 2 * C and multiplied by loudnessFactor.
C22_PeakWithinLoudestChannelNoHP ==
    (callbacks >= 1 /\ mixC >= 1) =>
        IF useHeadphoneFilter
        THEN /\ [k \in 1..BlockSize |-> emitted.left[k] * 2 * mixC]
                   = [k \in 1..BlockSize |-> convolverHP.outputLeft[k] * loudnessFactor]
             /\ [k \in 1..BlockSize |-> emitted.right[k] * 2 * mixC]
                   = [k \in 1..BlockSize |-> convolverHP.outputRight[k] * loudnessFactor]
        ELSE Peak(emitted) <= loudnessFactor * Unit * MaxOut(outs)

\* two channels with the same loud output, whose plain sum is twice the
\* largest sample, without the headphone filter and with loudnessFactor 3
C22_Witness ==
    /\ callbacks >= 1 /\ mixC = N /\ ~useHeadphoneFilter /\ loudnessFactor = 3
    /\ outs[1] = outs[2] /\ MaxOut(outs) = 3
    /\ 2 * Peak(emitted) = loudnessFactor * Unit * MaxOut(outs)


---------------------------------------------------------------------------
\* Reading a configuration file of up to MaxLines lines

NextConfig == ReadLine
SpecConfig == InitWith({<<"a">>}, {FALSE}, {FALSE}) /\ [][NextConfig]_vars

\* a line with a boolean key and a value that is neither 'True' nor 'False'
Malformed(line) == line[1] \in BoolKeys /\ line[2] \notin {"True", "False"}

\* C23: after a file of malformed boolean lines every key has its default
\* value and one warning was logged per line.
C23_MalformedBooleanKeepsDefault ==
    (configRead # <<>> /\ \A i \in 1..Len(configRead) : Malformed(configRead[i]))
    => /\ configurationDict = DefaultConfig
       /\ Len(configLog) = Len(configRead)


---------------------------------------------------------------------------
\* C24: the block a buffer_read call returns has as many rows as the channel
\* count the callback got from get_sound_channels, the source read from has
\* at least that many channels, and the assignment into binsim.block does
\* not fail - here for files of at most maxChannels channels.
C24_BlockRowsMatchChannelCount ==
    [][ (apc = "read" /\ apc' # apc /\ active_channels <= N /\ num_channels <= N)
        => /\ active_channels = num_channels
           /\ sound'.rows >= num_channels
           /\ apc' # "failed"
      ]_vars


---------------------------------------------------------------------------
\* C25: with no playlist message, a buffer_read call requests the entry
\* after entry k only when entry k is the active source, and never while a
\* loaded entry waits to be adopted or is about to be published.
C25_NextEntryRequestedAfterAdoption ==
    [][ (/\ apc = "read" /\ apc' # apc /\ fileMsgs = 0
         /\ currentSoundFile' = currentSoundFile + 1)
        => /\ sound'.f = soundFileList[currentSoundFile]
           /\ ~new_sound_file_loaded'
           /\ lpc # "publish"
      ]_vars


---------------------------------------------------------------------------
\* C26: a buffer_read call that finds the loaded flag set zeroes the buffer,
\* makes the staged buffer the source and clears the flag, and what it then
\* copies is block 0 of that source: the cursor is 0 when nothing was copied
\* and 1 with block 0 in the back half otherwise. A call that finds the flag
\* clear keeps its source.
C26_AdoptionStartsAtBlockZero ==
    [][ (apc = "read" /\ apc' # apc) =>
          IF new_sound_file_loaded
          THEN /\ sound' = sound_file
               /\ ~new_sound_file_loaded'
               /\ buffer'.front = ZeroHalf
               /\ \/ frame_count' = 0 /\ buffer'.back = ZeroHalf
                  \/ /\ frame_count' = 1
                     /\ \A r \in 1..N :
                           buffer'.back[r] = IF r <= Min(active_channels, N)
                                             THEN <<sound'.f, 0>> ELSE Zero
          ELSE sound' = sound
      ]_vars

\* the second playlist entry was adopted after blocks of the first were
\* delivered: the buffer holds nothing but block 0 of the new source
C26_Witness ==
    /\ apc = "convolve" /\ sound.f = "b" /\ frame_count = 1
    /\ buffer.front = ZeroHalf /\ buffer.back[1] = <<"b", 0>>
    /\ delivered # <<>> /\ delivered[1][1] = "a"


---------------------------------------------------------------------------
\* C27: a setIR(f, x) call makes the previous transfer functions the ones
\* that were current, the current ones the transform of f and the flag x,
\* and leaves every other field of the convolver as it was.
C27_SetIRChangesFiltersAndFlagOnly ==
    [][ (hist' = hist) =>
          \E id \in FilterIds :
             /\ plain'.st = "set" => id = plain'.f
             /\ cv' = [cv EXCEPT
                         !.TF_left_blocked_previous  = cv.TF_left_blocked,
                         !.TF_right_blocked_previous = cv.TF_right_blocked,
                         !.TF_left_blocked  =
                             [i \in 1..IR_blocks |-> filter_fftw_plan(Filter(id).left[i])],
                         !.TF_right_blocked =
                             [i \in 1..IR_blocks |-> filter_fftw_plan(Filter(id).right[i])],
                         !.interpolate = (fade'.last = "true")]
      ]_vars

\* setIR(f, True) on a convolver that has processed blocks with another
\* filter: delay lines, buffers and outputs hold data
C27_Witness ==
    /\ lastCall = "setIR" /\ cv.interpolate /\ cv.processCounter >= 2
    /\ cv.TF_left_blocked_previous # ZeroTF
    /\ cv.TF_left_blocked_previous # cv.TF_left_blocked
    /\ cv.FDL_left[2] # ZeroBins /\ cv.buffer # <<0, 0, 0, 0>>
    /\ cv.outputLeft # ZeroBlock /\ cv.resultLeftFreq # ZeroBins


---------------------------------------------------------------------------
\* the block the output stage gives for convolver outputs o alone, without
\* the headphone filter
FromOutputs(o, factor) == Loud(Scaled(Mixed(ZeroResult, o, 1), Len(o)), factor)

\* C28: without the headphone filter the emitted block is computed from the
\* convolver outputs of that callback alone; with no active channel it is
\* silence, with and without the headphone filter.
C28_NothingStaleReachesOutput ==
    callbacks >= 1 =>
        /\ ~useHeadphoneFilter => emitted = FromOutputs(outs, loudnessFactor)
        /\ mixC = 0 => emitted = ZeroResult


---------------------------------------------------------------------------
\* C29: active_channels is the number of channels of the source being played.
C29_ActiveChannelsOfCurrentSource == active_channels = sound.rows


---------------------------------------------------------------------------
\* C30: between the calls of the sound handler currentSoundFile is an index
\* into soundFileList (1-based) and soundPath is the entry it names.
C30_CurrentSoundFileNamesSoundPath ==
    /\ 1 <= currentSoundFile /\ currentSoundFile <= Len(soundFileList)
    /\ soundPath = soundFileList[currentSoundFile]

\* the playlist a#b looped: after its second entry was adopted and played,
\* the first one is requested again
C30_Witness ==
    /\ loopSound /\ fileMsgs = 0 /\ soundFileList = <<"a", "b">>
    /\ sound.f = "b" /\ currentSoundFile = 1 /\ soundPath = "a"
    /\ new_sound_file_request /\ apc = "convolve"


---------------------------------------------------------------------------
\* A sound event, looped or not, of 1 to MaxChunks chunks under any sequence
\* of commands and request_chunk calls

InitSoundEvent ==
    /\ InitCore({<<"a">>}, {FALSE}, {FALSE}) /\ InitMixWith({ZeroResult}, {FALSE}, {1})
    /\ InitConfig /\ InitEvent(BOOLEAN, ChunkCounts)
NextSoundEvent == ControlSoundEvent \/ SceneRequestChunk \/ EventRequestChunk
SpecSoundEvent == InitSoundEvent /\ [][NextSoundEvent]_vars

\* the chunk of the sound that follows chunk k: the next one, and the first
\* one after the last of a looped sound; after the last chunk of a sound
\* that is not looped comes silence
FollowingChunk(k) ==
    IF k + 1 < ev.chunks THEN <<"ev", k + 1>>
    ELSE IF ev.loopSound THEN <<"ev", 0>> ELSE Zero

\* C31: the request_chunk call after a chunk k was delivered and pause, start
\* were commanded returns the chunk that follows k; after stop, start it
\* returns chunk 0; a call on an event that is not running returns None and
\* leaves frame_count.
C31_PauseKeepsStopResets ==
    /\ (evRet.delivered # NoArg /\ evRet.cmds = <<"pause", "start">>)
          => evRet.chunk = FollowingChunk(evRet.delivered)
    /\ (evRet.delivered # NoArg /\ evRet.cmds = <<"stop", "start">>)
          => evRet.chunk = <<"ev", 0>>
    /\ (evRet.via # "idle" /\ ~evRet.was_running)
          => (evRet.chunk = None /\ evRet.after = evRet.before)


---------------------------------------------------------------------------
\* C32: after a start command with channel c the event is on channel c and
\* running, whatever channel it was on, and the scene the next
\* request_chunk of the handler returns has the event's chunk in row c and
\* zeros elsewhere.
C32_StartPlacesEventOnChannel ==
    /\ evStart # NoArg => (ev.channel = evStart /\ ev.is_running)
    /\ (evRet.via = "scene" /\ evRet.start # NoArg) =>
          \A row \in 1..N :
             scene_chunk[row] = IF row = evRet.start + 1 THEN evRet.chunk ELSE Zero


===========================================================================
